---- MODULE Spec2Model ----
(***************************************************************************)
(* Model of the internship recommender: the rule-based scorer and ranker   *)
(* (app/recommendation_engine.py, InternshipRecommender) and the hybrid    *)
(* classifier + rule-based boost ranker (app/model.py,                     *)
(* RecommendationEngine), with the HTTP handlers that call it              *)
(* (app/server.py).                                                        *)
(*                                                                         *)
(* A Python str is a sequence of one-character strings, so that strip(),   *)
(* lower() and split() are computed character by character.  A Python      *)
(* float score is an exact rational: every score is an integer number of   *)
(* units of 1 / One (rule-based) or 1 / POne (hybrid).                     *)
(***************************************************************************)
EXTENDS Integers, Sequences, FiniteSets, TLC

VARIABLES
    entry,         \* what this process runs: a tokenizer, score, the CLI, the server
    tokItems,      \* tokenizer input given as a sequence of phrases
    tokText,       \* the same phrases given as one delimited string
    tokRule,       \* results of InternshipRecommender._tokenize on both
    tokHybrid,     \* results of RecommendationEngine._clean_list on both
    tokDone,       \* which of the two tokenizers have been applied
    scProfile,     \* UserProfile handed to InternshipRecommender.score
    scInternship,  \* Internship handed to InternshipRecommender.score
    scResult,      \* outcome of the last score call
    internships,   \* InternshipRecommender.internships (the catalog)
    rbCall,        \* profile and limit of the last recommend call
    rbResult,      \* outcome of the last recommend call
    rbLoaded,      \* the catalog as the constructor received it
    dataset,       \* RecommendationEngine.dataset (rows of the CSV)
    classes,       \* RecommendationEngine.model.classes_
    hyCall,        \* profile, top_n and predict_proba of the last call
    hyResult       \* outcome of the last hybrid recommend call

tokVars == <<tokItems, tokText, tokRule, tokHybrid, tokDone>>
scVars == <<scProfile, scInternship, scResult>>
rbVars == <<internships, rbCall, rbResult, rbLoaded>>
hyVars == <<dataset, classes, hyCall, hyResult>>
vars == <<entry, tokVars, scVars, rbVars, hyVars>>

-----------------------------------------------------------------------------
(* Bounds *)

MaxPhraseLen == 2      \* longest generated tokenizer phrase
MaxPhrases == 2        \* longest generated tokenizer phrase list
MaxLocLen == 2         \* longest generated location string
MaxCatalog == 3        \* most internships in a catalog
MaxLimit == 3          \* largest limit handed to recommend
MaxRows == 2           \* most rows in the hybrid engine's dataset
MaxTopN == 3           \* largest limit a request carries
ProbGrains == 10       \* predict_proba values are multiples of 1 / ProbGrains

-----------------------------------------------------------------------------
(* Python str and list primitives *)

Whitespace == {" "}

\* str.lower() on one character
LowerChar(c) ==
    CASE c = "A" -> "a"
      [] c = "B" -> "b"
      [] c = "D" -> "d"
      [] c = "M" -> "m"
      [] c = "R" -> "r"
      [] OTHER -> c

Lower(s) == [i \in 1..Len(s) |-> LowerChar(s[i])]

RECURSIVE LStrip(_)
LStrip(s) ==
    IF s # <<>> /\ Head(s) \in Whitespace THEN LStrip(Tail(s)) ELSE s

RECURSIVE RStrip(_)
RStrip(s) ==
    IF s # <<>> /\ s[Len(s)] \in Whitespace
    THEN RStrip(SubSeq(s, 1, Len(s) - 1))
    ELSE s

\* str.strip()
Strip(s) == RStrip(LStrip(s))

\* str.replace(old, new) for one-character old and new
Replace(s, old, new) == [i \in 1..Len(s) |-> IF s[i] = old THEN new ELSE s[i]]

\* str.split(sep) for a one-character sep: empty fields are kept
RECURSIVE SplitOn(_, _)
SplitOn(s, sep) ==
    IF \E i \in 1..Len(s) : s[i] = sep
    THEN LET i == CHOOSE k \in 1..Len(s) :
                      s[k] = sep /\ \A j \in 1..(k - 1) : s[j] # sep
         IN  <<SubSeq(s, 1, i - 1)>> \o SplitOn(SubSeq(s, i + 1, Len(s)), sep)
    ELSE <<s>>

\* str.split() without a separator: runs of whitespace separate, no empty field
RECURSIVE SplitWs(_)
SplitWs(s) ==
    LET t == LStrip(s)
    IN  IF t = <<>> THEN <<>>
        ELSE IF \E i \in 1..Len(t) : t[i] \in Whitespace
        THEN LET i == CHOOSE k \in 1..Len(t) :
                          t[k] \in Whitespace
                          /\ \A j \in 1..(k - 1) : t[j] \notin Whitespace
             IN  <<SubSeq(t, 1, i - 1)>> \o SplitWs(SubSeq(t, i + 1, Len(t)))
        ELSE <<t>>

\* set(list)
ToSet(l) == {l[i] : i \in 1..Len(l)}

\* [f(x) for x in l if keep(x)] building blocks
RECURSIVE SelectNonEmpty(_)
SelectNonEmpty(l) ==
    IF l = <<>> THEN <<>>
    ELSE IF Head(l) # <<>> THEN <<Head(l)>> \o SelectNonEmpty(Tail(l))
    ELSE SelectNonEmpty(Tail(l))

\* a Python value that is either a str or a list of str
PyStr(s) == [kind |-> "str", val |-> s]
PyList(l) == [kind |-> "list", val |-> l]

\* for item in v: a str iterates over its one-character strings
Iter(v) ==
    IF v.kind = "str" THEN [i \in 1..Len(v.val) |-> <<v.val[i]>>] ELSE v.val

\* all strings over an alphabet of length at most n
StringsUpTo(alphabet, n) == UNION {[1..k -> alphabet] : k \in 0..n}

-----------------------------------------------------------------------------
(* Tokenizers *)

NormalizeNoLower(text) == Strip(text)

\* InternshipRecommender._normalize
Normalize(text) == Lower(Strip(text))

\* InternshipRecommender._tokenize
Tokenize(items) ==
    LET kept == SelectNonEmpty(Iter(items))
    IN  [i \in 1..Len(kept) |-> Normalize(kept[i])]

\* RecommendationEngine._clean_list
CleanList(text) ==
    IF text.kind # "str" THEN <<>>
    ELSE LET fields == SplitOn(Replace(text.val, ",", ";"), ";")
             stripped == [i \in 1..Len(fields) |-> Strip(fields[i])]
             kept == SelectNonEmpty(stripped)
         IN  [i \in 1..Len(kept) |-> Lower(kept[i])]

-----------------------------------------------------------------------------
(* Tokenizer inputs: one logical list of phrases in both representations *)

PhraseAlphabet == {"a", "B", " "}
Phrases == StringsUpTo(PhraseAlphabet, MaxPhraseLen)
PhraseLists == UNION {[1..k -> Phrases] : k \in 0..MaxPhrases}

\* how the phrases are delimited in the single-string representation
DelimiterStyles == {"comma", "semicolon", "comma_semicolon"}

Delimiter(style, gap) ==
    CASE style = "comma" -> <<",">>
      [] style = "semicolon" -> <<";">>
      [] OTHER -> IF gap % 2 = 1 THEN <<",", " ">> ELSE <<";", " ">>

\* "a, b; c" for the phrases a, b, c
RECURSIVE JoinFrom(_, _, _)
JoinFrom(items, style, gap) ==
    IF items = <<>> THEN <<>>
    ELSE IF Len(items) = 1 THEN Head(items)
    ELSE Head(items) \o Delimiter(style, gap) \o JoinFrom(Tail(items), style, gap + 1)

Join(items, style) == JoinFrom(items, style, 1)

\* the example of the specification: "python, data analysis; ai"
ExampleItems == << <<"a", "B">>, <<"a", " ", "B">>, <<"B">> >>
ExampleText == Join(ExampleItems, "comma_semicolon")

TokInputs ==
    {<<items, Join(items, style)>> : items \in PhraseLists, style \in DelimiterStyles}
        \cup {<<ExampleItems, ExampleText>>}

NoTokens == [seq |-> <<>>, str |-> <<>>]

TokInit ==
    /\ \E input \in TokInputs : tokItems = input[1] /\ tokText = input[2]
    /\ tokRule = NoTokens
    /\ tokHybrid = NoTokens
    /\ tokDone = {}

TokIdle ==
    /\ tokItems = <<>>
    /\ tokText = <<>>
    /\ tokRule = NoTokens
    /\ tokHybrid = NoTokens
    /\ tokDone = {}

\* InternshipRecommender._tokenize applied to both representations
TokenizeCall ==
    /\ entry = "tokenizers"
    /\ "tokenize" \notin tokDone
    /\ tokRule' = [seq |-> Tokenize(PyList(tokItems)), str |-> Tokenize(PyStr(tokText))]
    /\ tokDone' = tokDone \cup {"tokenize"}
    /\ UNCHANGED <<tokItems, tokText, tokHybrid>>
    /\ UNCHANGED <<entry, scVars, rbVars, hyVars>>

\* RecommendationEngine._clean_list applied to both representations
CleanListCall ==
    /\ entry = "tokenizers"
    /\ "clean_list" \notin tokDone
    /\ tokHybrid' = [seq |-> CleanList(PyList(tokItems)), str |-> CleanList(PyStr(tokText))]
    /\ tokDone' = tokDone \cup {"clean_list"}
    /\ UNCHANGED <<tokItems, tokText, tokRule>>
    /\ UNCHANGED <<entry, scVars, rbVars, hyVars>>

-----------------------------------------------------------------------------
(* Rule-based scorer: InternshipRecommender *)

\* InternshipRecommender.WEIGHTS and the delivery-mode bonus, in hundredths
WSkills == 40
WInterests == 25
WEducation == 20
WLocation == 15
DeliveryBonus == 5
Hundredths == 10 * 10

Max(a, b) == IF a >= b THEN a ELSE b
Min(a, b) == IF a <= b THEN a ELSE b

RECURSIVE Gcd(_, _)
Gcd(a, b) == IF b = 0 THEN a ELSE Gcd(b, a % b)

RECURSIVE LcmUpTo(_)
LcmUpTo(n) == IF n <= 1 THEN 1 ELSE LET l == LcmUpTo(n - 1) IN (l * n) \div Gcd(l, n)

\* field values of the profiles and internships that are scored
ProfileSkillLists == {<<>>, << <<"A", " ">> >>, << <<"a">>, <<"b">> >>}
InternshipSkillLists == {<<>>, << <<"a">>, <<"b">> >>, << <<"b">> >>}
ProfileInterestLists == {<<>>, << <<"m">> >>}
InternshipInterestLists == {<< <<"M">> >>, << <<"M">>, <<"r">> >>}
ProfileEducations == {<<" ", "b">>, <<"m">>}
EducationLevelLists == {<<>>, << <<"d">>, <<"B">> >>}
DeliveryModes == {<<"r">>, <<"H">>, <<"o">>}

\* the two delivery modes that earn the bonus, "remote" and "hybrid"
BonusModes == {<<"r">>, <<"h">>}

LocAlphabet == {"d", " ", ","}
LongLocations ==
    { <<"D">>, <<"m">>, <<"d", " ", "m">>, <<"D", " ", "d">>, <<"d", " ", ",">>,
      <<"d", " ", ",", "m">>, <<"d", " ", "m", ",", "d">> }
Locations == StringsUpTo(LocAlphabet, MaxLocLen) \cup LongLocations

Internship(id, location, education_levels, skills, interests, delivery_mode) ==
    [id |-> id, location |-> location, education_levels |-> education_levels,
     skills |-> skills, interests |-> interests, delivery_mode |-> delivery_mode]

UserProfile(education, skills, interests, location) ==
    [education |-> education, skills |-> skills, interests |-> interests,
     location |-> location]

\* the internships a catalog file is made of (ids are unique in a catalog)
CatalogPool ==
    << Internship("i1", <<"d">>, << <<"B">> >>, << <<"a">>, <<"b">> >>,
                  << <<"M">> >>, <<"o">>),
       Internship("i2", <<"D", " ">>, << <<"b">> >>, << <<"b">>, <<"A">> >>,
                  << <<"m">> >>, <<"o">>),
       Internship("i3", <<"m">>, <<>>, << <<"b">> >>, <<>>, <<"r">>),
       Internship("i4", <<"m">>, << <<"d">> >>, << <<"r">>, <<"a">>, <<"m">> >>,
                  <<>>, <<"o">>),
       Internship("i5", <<>>, << <<"b">> >>, << <<"a">> >>, <<>>, <<"H">>) >>

\* the profiles recommend is called with
RankedProfiles ==
    { UserProfile(<<"b">>, << <<"A", " ">>, <<"b">> >>, << <<"m">> >>, <<"d">>),
      UserProfile(<<"d">>, <<>>, <<>>, <<>>),
      UserProfile(<<"B">>, << <<"a">> >>, <<>>, <<>>),
      UserProfile(<<"m">>, << <<"b">> >>, <<>>, <<"m">>),
      UserProfile(<<"b">>, << <<"a">> >>, <<>>, <<" ">>) }

\* the longest list of phrases an internship carries
MaxTargetLen ==
    LET lens == {Len(l) : l \in InternshipSkillLists \cup InternshipInterestLists}
                    \cup {Len(CatalogPool[k].skills) : k \in DOMAIN CatalogPool}
                    \cup {Len(CatalogPool[k].interests) : k \in DOMAIN CatalogPool}
    IN  CHOOSE n \in lens : \A m \in lens : m <= n

\* every factor is a whole number of 1 / FactorOne
FactorOne == 2 * LcmUpTo(MaxTargetLen)

\* the score 1.0
One == FactorOne * Hundredths

NoRaise == "none"

\* InternshipRecommender._location_score: [exc, val], val in units of 1 / FactorOne
LocationScore(user_location, internship_location) ==
    IF user_location = <<>> THEN [exc |-> NoRaise, val |-> 0]
    ELSE
      LET user_loc == Normalize(user_location)
          internship_loc == Normalize(internship_location)
          tokens == {t \in ToSet(SplitOn(user_loc, ",") \o SplitOn(internship_loc, ",")) :
                        t # <<>>}
      IN  IF user_loc = internship_loc THEN [exc |-> NoRaise, val |-> FactorOne]
          ELSE IF ~(Cardinality(tokens) < 4) THEN [exc |-> NoRaise, val |-> 0]
          ELSE IF SplitWs(user_loc) = <<>> \/ SplitWs(internship_loc) = <<>>
          THEN [exc |-> "IndexError", val |-> 0]
          ELSE IF SplitWs(user_loc)[1] = SplitWs(internship_loc)[1]
          THEN [exc |-> NoRaise, val |-> FactorOne \div 2]
          ELSE [exc |-> NoRaise, val |-> 0]

\* InternshipRecommender._match_fraction, in units of 1 / FactorOne
MatchFraction(user_items, target_items) ==
    LET user_tokens == ToSet(Tokenize(PyList(user_items)))
        target_tokens == ToSet(Tokenize(PyList(target_items)))
    IN  IF user_tokens = {} \/ target_tokens = {} THEN 0
        ELSE (Cardinality(user_tokens \cap target_tokens) * FactorOne)
                 \div Cardinality(target_tokens)

\* the education factor of InternshipRecommender.score
EducationScore(profile, internship) ==
    IF Normalize(profile.education)
           \in {Normalize(internship.education_levels[i]) :
                    i \in 1..Len(internship.education_levels)}
    THEN FactorOne ELSE 0

\* the delivery-mode test of InternshipRecommender.score
HasDeliveryBonus(internship) == Lower(internship.delivery_mode) \in BonusModes

WeightedScoreDoubleBonus(skill, interest, education, location, bonus) ==
    skill * WSkills + interest * WInterests + education * WEducation
        + location * WLocation + (IF bonus THEN 2 * DeliveryBonus * FactorOne ELSE 0)

\* weighted_score of InternshipRecommender.score, in units of 1 / One
WeightedScore(skill, interest, education, location, bonus) ==
    skill * WSkills + interest * WInterests + education * WEducation
        + location * WLocation + (IF bonus THEN DeliveryBonus * FactorOne ELSE 0)

ReasonsExactLocationOnly(skill, interest, education, location, bonus) ==
    (IF skill # 0 THEN <<"skills">> ELSE <<>>)
        \o (IF interest # 0 THEN <<"interests">> ELSE <<>>)
        \o (IF education # 0 THEN <<"education">> ELSE <<>>)
        \o (IF location = FactorOne THEN <<"location">> ELSE <<>>)
        \o (IF bonus THEN <<"delivery">> ELSE <<>>)

\* the reasons list of InternshipRecommender.score, one tag per reason
Reasons(skill, interest, education, location, bonus) ==
    (IF skill # 0 THEN <<"skills">> ELSE <<>>)
        \o (IF interest # 0 THEN <<"interests">> ELSE <<>>)
        \o (IF education # 0 THEN <<"education">> ELSE <<>>)
        \o (IF location # 0
            THEN (IF location = FactorOne THEN <<"location">> ELSE <<"nearby">>)
            ELSE <<>>)
        \o (IF bonus THEN <<"delivery">> ELSE <<>>)

\* InternshipRecommender.score: a Recommendation, or the exception it raises
Score(profile, internship) ==
    LET skill_score == MatchFraction(profile.skills, internship.skills)
        interest_score == MatchFraction(profile.interests, internship.interests)
        education_score == EducationScore(profile, internship)
        location == LocationScore(profile.location, internship.location)
        bonus == HasDeliveryBonus(internship)
    IN  IF location.exc # NoRaise
        THEN [exc |-> location.exc, internship |-> internship, score |-> 0,
              reasons |-> <<>>]
        ELSE [exc |-> NoRaise,
              internship |-> internship,
              score |-> WeightedScore(skill_score, interest_score, education_score,
                                      location.val, bonus),
              reasons |-> Reasons(skill_score, interest_score, education_score,
                                  location.val, bonus)]

ScoredProfiles ==
    {UserProfile(e, s, i, l) : e \in ProfileEducations, s \in ProfileSkillLists,
                               i \in ProfileInterestLists, l \in Locations}

ScoredInternships ==
    {Internship("i1", l, e, s, i, d) : l \in Locations, e \in EducationLevelLists,
                                       s \in InternshipSkillLists,
                                       i \in InternshipInterestLists,
                                       d \in DeliveryModes}

NotScored == [exc |-> "not called", internship |-> <<>>, score |-> 0, reasons |-> <<>>]

ScInit ==
    /\ scProfile \in ScoredProfiles
    /\ scInternship \in ScoredInternships
    /\ scResult = NotScored

ScIdle ==
    /\ scProfile = <<>>
    /\ scInternship = <<>>
    /\ scResult = NotScored

\* one call of InternshipRecommender.score
ScoreCall ==
    /\ entry = "score"
    /\ scResult = NotScored
    /\ scResult' = Score(scProfile, scInternship)
    /\ UNCHANGED <<scProfile, scInternship>>
    /\ UNCHANGED <<entry, tokVars, rbVars, hyVars>>

-----------------------------------------------------------------------------
(* Rule-based ranker: InternshipRecommender.recommend *)

\* list.sort(key=score, reverse=True) is stable: equal scores keep their order
RECURSIVE InsertDescending(_, _)
InsertDescending(sorted, rec) ==
    IF sorted = <<>> THEN <<rec>>
    ELSE IF Head(sorted).score >= rec.score
    THEN <<Head(sorted)>> \o InsertDescending(Tail(sorted), rec)
    ELSE <<rec>> \o sorted

RECURSIVE InsertAscending(_, _)
InsertAscending(sorted, rec) ==
    IF sorted = <<>> THEN <<rec>>
    ELSE IF Head(sorted).score <= rec.score
    THEN <<Head(sorted)>> \o InsertAscending(Tail(sorted), rec)
    ELSE <<rec>> \o sorted

RECURSIVE SortAscending(_)
SortAscending(l) ==
    IF l = <<>> THEN <<>>
    ELSE InsertAscending(SortAscending(SubSeq(l, 1, Len(l) - 1)), l[Len(l)])

Reversed(l) == [i \in 1..Len(l) |-> l[Len(l) + 1 - i]]

\* an ascending sort followed by reverse(): equal scores change places
SortAscendingReversed(l) == Reversed(SortAscending(l))

RECURSIVE SortDescending(_)
SortDescending(l) ==
    IF l = <<>> THEN <<>>
    ELSE InsertDescending(SortDescending(SubSeq(l, 1, Len(l) - 1)), l[Len(l)])

\* [rec for rec in ranked if rec.score > 0]
RECURSIVE PositiveOnly(_)
PositiveOnly(l) ==
    IF l = <<>> THEN <<>>
    ELSE IF Head(l).score > 0 THEN <<Head(l)>> \o PositiveOnly(Tail(l))
    ELSE PositiveOnly(Tail(l))

\* l[:n] of Python for any integer n
PySlice(l, n) ==
    IF n >= 0 THEN SubSeq(l, 1, Min(n, Len(l)))
    ELSE SubSeq(l, 1, Max(Len(l) + n, 0))

TruncateNoGuard(l, limit) == PySlice(l, limit)

\* l[: limit if limit > 0 else None]
Truncate(l, limit) == IF limit > 0 THEN PySlice(l, limit) ELSE l

\* InternshipRecommender.recommend: the list it returns, or the exception
Recommend(catalog, profile, limit) ==
    LET ranked == [i \in 1..Len(catalog) |-> Score(profile, catalog[i])]
    IN  IF \E i \in 1..Len(ranked) : ranked[i].exc # NoRaise
        THEN LET first == CHOOSE i \in 1..Len(ranked) :
                              ranked[i].exc # NoRaise
                              /\ \A j \in 1..(i - 1) : ranked[j].exc = NoRaise
             IN  [exc |-> ranked[first].exc, recs |-> <<>>]
        ELSE [exc |-> NoRaise,
              recs |-> Truncate(PositiveOnly(SortDescending(ranked)), limit)]

CatalogSortedInPlace(catalog, profile) ==
    LET ranked == [i \in 1..Len(catalog) |-> Score(profile, catalog[i])]
    IN  IF \E i \in 1..Len(ranked) : ranked[i].exc # NoRaise THEN catalog
        ELSE [i \in 1..Len(catalog) |-> SortDescending(ranked)[i].internship]

\* self.internships after recommend: the ranking is built and sorted in a new list
CatalogAfterRecommend(catalog, profile) == catalog

\* InternshipRecommender.__init__ on catalogs of distinct internships
Catalogs ==
    {[i \in 1..Len(ix) |-> CatalogPool[ix[i]]] :
        ix \in {s \in UNION {[1..k -> DOMAIN CatalogPool] : k \in 0..MaxCatalog} :
                   \A i, j \in 1..Len(s) : i # j => s[i] # s[j]}}

Limits == (-2)..MaxLimit

NoCall == [profile |-> <<>>, limit |-> 0]
NoResult == [exc |-> "not called", recs |-> <<>>]

RbInit ==
    /\ internships \in Catalogs
    /\ rbLoaded = internships
    /\ rbCall = NoCall
    /\ rbResult = NoResult

RbIdle ==
    /\ internships = <<>>
    /\ rbLoaded = <<>>
    /\ rbCall = NoCall
    /\ rbResult = NoResult

\* one call of InternshipRecommender.recommend
RecommendCall ==
    /\ entry = "cli"
    /\ \E profile \in RankedProfiles, limit \in Limits :
          /\ rbCall' = [profile |-> profile, limit |-> limit]
          /\ rbResult' = Recommend(internships, profile, limit)
          /\ internships' = CatalogAfterRecommend(internships, profile)
          /\ UNCHANGED rbLoaded
          /\ UNCHANGED <<entry, tokVars, scVars, hyVars>>

-----------------------------------------------------------------------------
(* Hybrid engine: RecommendationEngine *)

\* the additive boost weights of _rule_based_boost, in hundredths
BoostSkills == 10
BoostInterests == 5
BoostEducation == 5

\* top_n when a request names no limit, and the default of recommend
DefaultTopN == 3

\* class labels in the order numpy sorts them in model.classes_
CareerOrder == <<"A", "B", "C">>
Careers == ToSet(CareerOrder)

Row(career, skills, interests, education) ==
    [recommended_career |-> career, skills |-> skills, interests |-> interests,
     education |-> education]

\* rows of the CSV after load_dataset (text columns are str and stripped)
RowPool ==
    << Row("A", <<"a", ";", "b">>, <<"m">>, <<"b">>),
       Row("A", <<"r">>, <<"r">>, <<"d">>),
       Row("B", <<"a", ",", " ", "B">>, <<"m", ";", "r">>, <<"B">>),
       Row("C", <<"r">>, <<"r">>, <<"m">>) >>

\* request payloads after parse_request_data
Payloads ==
    { [skills |-> <<"A", " ", ";", "b">>, interests |-> <<"m">>, education |-> <<"b">>],
      [skills |-> <<>>, interests |-> <<>>, education |-> <<>>],
      [skills |-> <<"r">>, interests |-> <<"r", ",", "m">>, education |-> <<"B", " ">>] }

\* no row's skills or interests hold more tokens than the longest has characters
MaxCareerTokens ==
    LET lens == {Len(RowPool[k].skills) : k \in DOMAIN RowPool}
                    \cup {Len(RowPool[k].interests) : k \in DOMAIN RowPool}
    IN  CHOOSE n \in lens : \A m \in lens : m <= n

\* every overlap fraction is a whole number of 1 / OverlapOne
OverlapOne == LcmUpTo(MaxCareerTokens)

\* the probability 1.0
POne == ProbGrains * OverlapOne * Hundredths

\* a predict_proba value of k / ProbGrains in units of 1 / POne
Probability(k) == k * OverlapOne * Hundredths

\* self.dataset[self.dataset["recommended_career"] == career], as row numbers
RowsOf(ds, career) == {i \in 1..Len(ds) : ds[i].recommended_career = career}

HasRecord(ds, career) == RowsOf(ds, career) # {}

\* .iloc[0]
FirstRow(ds, career) ==
    ds[CHOOSE i \in RowsOf(ds, career) : \A j \in RowsOf(ds, career) : i <= j]

\* len(a & b) / max(len(b), 1), in units of 1 / OverlapOne
OverlapFraction(profile_tokens, career_tokens) ==
    (Cardinality(profile_tokens \cap career_tokens) * OverlapOne)
        \div Max(Cardinality(career_tokens), 1)

\* RecommendationEngine._rule_based_boost: [exc, val], val in units of 1 / POne
RuleBasedBoost(ds, profile, career) ==
    IF ~HasRecord(ds, career) THEN [exc |-> "IndexError", val |-> 0]
    ELSE
      LET record == FirstRow(ds, career)
          profile_skills == ToSet(CleanList(PyStr(profile.skills)))
          profile_interests == ToSet(CleanList(PyStr(profile.interests)))
          career_skills == ToSet(CleanList(PyStr(record.skills)))
          career_interests == ToSet(CleanList(PyStr(record.interests)))
          skill_overlap == OverlapFraction(profile_skills, career_skills)
          interest_overlap == OverlapFraction(profile_interests, career_interests)
          education_match ==
              IF Lower(profile.education) = Lower(record.education)
              THEN OverlapOne ELSE 0
      IN  [exc |-> NoRaise,
           val |-> (BoostSkills * skill_overlap + BoostInterests * interest_overlap
                        + BoostEducation * education_match) * ProbGrains]

\* RecommendationEngine._describe_overlap: the matched tokens it lists
DescribeOverlap(ds, profile, career) ==
    LET record == FirstRow(ds, career)
    IN  [skills |-> ToSet(CleanList(PyStr(profile.skills)))
                        \cap ToSet(CleanList(PyStr(record.skills))),
         interests |-> ToSet(CleanList(PyStr(profile.interests)))
                           \cap ToSet(CleanList(PyStr(record.interests)))]

\* RecommendationEngine._build_rationale: the parts the rationale is joined from
BuildRationale(ds, profile, career, base_prob, boost) ==
    [boost_shown |-> boost > 0, overlap |-> DescribeOverlap(ds, profile, career)]

FinalProbabilityUncapped(base_prob, boost) == base_prob + boost

\* final_prob = min(base_prob + boost, 1.0)
FinalProbability(base_prob, boost) == Min(base_prob + boost, POne)

\* sorted(zip(classes_, proba), key=lambda x: x[1], reverse=True)
RankByProbability(cls, proba) ==
    SortDescending([i \in 1..Len(cls) |-> [career |-> cls[i], score |-> Probability(proba[i])]])

\* one pass of the loop of RecommendationEngine.recommend
FuseOne(ds, profile, pair) ==
    LET boost == RuleBasedBoost(ds, profile, pair.career)
    IN  IF boost.exc # NoRaise
        THEN [exc |-> boost.exc, career |-> pair.career, probability |-> 0,
              rationale |-> <<>>]
        ELSE [exc |-> NoRaise,
              career |-> pair.career,
              probability |-> FinalProbability(pair.score, boost.val),
              rationale |-> BuildRationale(ds, profile, pair.career, pair.score,
                                           boost.val)]

\* RecommendationEngine.recommend: the results it returns, or the exception
HybridRecommend(ds, cls, profile, top_n, proba) ==
    LET ranked == RankByProbability(cls, proba)
        taken == PySlice(ranked, top_n)
        fused == [i \in 1..Len(taken) |-> FuseOne(ds, profile, taken[i])]
    IN  IF \E i \in 1..Len(fused) : fused[i].exc # NoRaise
        THEN [exc |-> "IndexError", results |-> <<>>]
        ELSE [exc |-> NoRaise,
              results |-> [i \in 1..Len(fused) |->
                              [career |-> fused[i].career,
                               probability |-> fused[i].probability,
                               rationale |-> fused[i].rationale]]]

\* datasets of distinct rows, in any order
Datasets ==
    {[i \in 1..Len(ix) |-> RowPool[ix[i]]] :
        ix \in {s \in UNION {[1..k -> DOMAIN RowPool] : k \in 1..MaxRows} :
                   \A i, j \in 1..Len(s) : i # j => s[i] # s[j]}}

\* model.classes_: at least two labels, sorted
ClassLists ==
    {SelectSeq(CareerOrder, LAMBDA c : c \in labels) :
        labels \in {l \in SUBSET Careers : Cardinality(l) >= 2}}

RECURSIVE SumOf(_)
SumOf(p) == IF p = <<>> THEN 0 ELSE Head(p) + SumOf(Tail(p))

\* predict_proba(input_df)[0]: non-negative, one value per class, summing to 1
ProbaVectors(cls) == {p \in [1..Len(cls) -> 0..ProbGrains] : SumOf(p) = ProbGrains}

\* int(request.args.get("limit", request.form.get("limit", 3)))
RequestLimits ==
    {[given |-> FALSE, value |-> 0]} \cup {[given |-> TRUE, value |-> n] : n \in (-2)..MaxTopN}

LimitOf(requested) == IF requested.given THEN requested.value ELSE DefaultTopN

NoHybridCall == [handler |-> "none", profile |-> <<>>, top_n |-> 0, proba |-> <<>>]
NoHybridResult == [exc |-> "not called", results |-> <<>>]

\* RecommendationEngine.__init__: the model is trained on the dataset, or loaded
\* from a model file written earlier, whose classes need not be the dataset's
HyInit ==
    /\ dataset \in Datasets
    /\ classes \in ClassLists
    /\ hyCall = NoHybridCall
    /\ hyResult = NoHybridResult

HyIdle ==
    /\ dataset = <<>>
    /\ classes = <<>>
    /\ hyCall = NoHybridCall
    /\ hyResult = NoHybridResult

\* POST /api/recommend up to its return: the limit of the query string or the
\* form, engine.recommend(payload, top_n=limit)
ApiRecommend ==
    /\ entry = "server"
    /\ hyCall = NoHybridCall
    /\ \E payload \in Payloads, requested \in RequestLimits,
          proba \in ProbaVectors(classes) :
          /\ hyCall' = [handler |-> "api_recommend", profile |-> payload,
                        top_n |-> LimitOf(requested), proba |-> proba]
          /\ hyResult' = HybridRecommend(dataset, classes, payload,
                                         LimitOf(requested), proba)
          /\ UNCHANGED <<dataset, classes>>
          /\ UNCHANGED <<entry, tokVars, scVars, rbVars>>

\* POST / up to its return: the limit of the form, engine.recommend(payload,
\* top_n=limit)
FormPost ==
    /\ entry = "server"
    /\ hyCall = NoHybridCall
    /\ \E payload \in Payloads, requested \in RequestLimits,
          proba \in ProbaVectors(classes) :
          /\ hyCall' = [handler |-> "form", profile |-> payload,
                        top_n |-> LimitOf(requested), proba |-> proba]
          /\ hyResult' = HybridRecommend(dataset, classes, payload,
                                         LimitOf(requested), proba)
          /\ UNCHANGED <<dataset, classes>>
          /\ UNCHANGED <<entry, tokVars, scVars, rbVars>>

\* the handler returns (or Flask answers the exception): the request is over
SendResponse ==
    /\ entry = "server"
    /\ hyCall # NoHybridCall
    /\ hyCall' = NoHybridCall
    /\ hyResult' = NoHybridResult
    /\ UNCHANGED <<dataset, classes>>
    /\ UNCHANGED <<entry, tokVars, scVars, rbVars>>

-----------------------------------------------------------------------------
(* Specifications *)

\* the two tokenizers on one input
InitTok == entry = "tokenizers" /\ TokInit /\ ScIdle /\ RbIdle /\ HyIdle
NextTok == TokenizeCall \/ CleanListCall
SpecTok == InitTok /\ [][NextTok]_vars

\* InternshipRecommender.score on one profile and one internship
InitScore == entry = "score" /\ TokIdle /\ ScInit /\ RbIdle /\ HyIdle
NextScore == ScoreCall
SpecScore == InitScore /\ [][NextScore]_vars

\* InternshipRecommender.recommend, called any number of times on one catalog
InitRule == entry = "cli" /\ TokIdle /\ ScIdle /\ RbInit /\ HyIdle
NextRule == RecommendCall
SpecRule == InitRule /\ [][NextRule]_vars

\* the HTTP handlers calling RecommendationEngine.recommend
InitHybrid == entry = "server" /\ TokIdle /\ ScIdle /\ RbIdle /\ HyInit
NextHybrid == ApiRecommend \/ FormPost \/ SendResponse
SpecHybrid == InitHybrid /\ [][NextHybrid]_vars

\* InternshipRecommender.score called directly, or through recommend by the CLI
InitScoreRule == InitScore \/ InitRule
NextScoreRule == ScoreCall \/ RecommendCall
SpecScoreRule == InitScoreRule /\ [][NextScoreRule]_vars

\* any of the entry points
Init == InitTok \/ InitScore \/ InitRule \/ InitHybrid
Next ==
    \/ TokenizeCall
    \/ CleanListCall
    \/ ScoreCall
    \/ RecommendCall
    \/ ApiRecommend
    \/ FormPost
    \/ SendResponse
Spec == Init /\ [][Next]_vars

-----------------------------------------------------------------------------
(* Properties *)

BothTokenizersApplied == tokDone = {"tokenize", "clean_list"}

IndexIn(catalog, internship) == CHOOSE i \in 1..Len(catalog) : catalog[i] = internship

\* C2: the list recommend returns is in non-increasing order of score, and
\* recommendations of equal score keep the order of their internships in the
\* catalog.
C2_SortedDescendingStable ==
    rbResult.exc = NoRaise =>
        \A i, j \in 1..Len(rbResult.recs) :
            i < j =>
                /\ rbResult.recs[i].score >= rbResult.recs[j].score
                /\ rbResult.recs[i].score = rbResult.recs[j].score
                       => IndexIn(internships, rbResult.recs[i].internship)
                              < IndexIn(internships, rbResult.recs[j].internship)

\* a ranking of three with a tie and a strict step, the catalog in another order
C2_Witness ==
    /\ rbResult.exc = NoRaise
    /\ Len(rbResult.recs) = 3
    /\ \E i \in 1..2 : rbResult.recs[i].score = rbResult.recs[i + 1].score
    /\ \E i \in 1..2 : rbResult.recs[i].score > rbResult.recs[i + 1].score
    /\ rbResult.recs[1].internship # internships[1]

\* C3: the list the hybrid recommend returns is in non-increasing order of the
\* final (fused) probability.
C3_SortedByFinalProbability ==
    hyResult.exc = NoRaise =>
        \A i, j \in 1..Len(hyResult.results) :
            i < j => hyResult.results[i].probability >= hyResult.results[j].probability

Blank(text) == Strip(text) = <<>>

\* C4: score returns a Recommendation and never raises, and a blank location
\* on either side earns no location reason.
C4_ScoreNeverRaises ==
    scResult # NotScored =>
        /\ scResult.exc = NoRaise
        /\ (Blank(scProfile.location) \/ Blank(scInternship.location))
               => /\ "location" \notin ToSet(scResult.reasons)
                  /\ "nearby" \notin ToSet(scResult.reasons)

\* base probability of a class in the request being handled
BaseOf(career) ==
    Probability(hyCall.proba[CHOOSE i \in 1..Len(classes) : classes[i] = career])

\* the classes the hybrid recommend fuses: the top_n most probable
TakenClasses ==
    LET taken == PySlice(RankByProbability(classes, hyCall.proba), hyCall.top_n)
    IN  {taken[i].career : i \in 1..Len(taken)}

\* C5: a class label without a record in the dataset never crashes the
\* ranking: its boost is 0 and its result carries the base probability.
C5_UnbackedLabelKeepsBaseProbability ==
    hyCall # NoHybridCall =>
        /\ hyResult.exc = NoRaise
        /\ {hyResult.results[i].career : i \in 1..Len(hyResult.results)} = TakenClasses
        /\ \A i \in 1..Len(hyResult.results) :
               ~HasRecord(dataset, hyResult.results[i].career)
                   => hyResult.results[i].probability = BaseOf(hyResult.results[i].career)

\* C6: every probability the hybrid recommend returns is min(base + boost, 1.0)
\* and so at most 1.0, with the boost between 0 and 0.20.
C6_FusionCappedAtOne ==
    hyResult.exc = NoRaise =>
        \A i \in 1..Len(hyResult.results) :
            LET r == hyResult.results[i]
                base == BaseOf(r.career)
                boost == RuleBasedBoost(dataset, hyCall.profile, r.career).val
            IN  /\ 0 <= boost /\ boost <= POne \div 5
                /\ r.probability <= POne
                /\ r.probability >= base
                /\ base + boost <= POne => r.probability = base + boost
                /\ base + boost > POne => r.probability = POne

\* a result whose base probability and boost add up to more than 1.0
C6_Witness ==
    /\ hyResult.exc = NoRaise
    /\ \E i \in 1..Len(hyResult.results) :
           LET r == hyResult.results[i]
           IN  /\ BaseOf(r.career)
                      + RuleBasedBoost(dataset, hyCall.profile, r.career).val > POne
               /\ r.probability = POne

\* catalog positions of the internships that score above 0 for a profile
PositiveIndexes(catalog, profile) ==
    {i \in 1..Len(catalog) : Score(profile, catalog[i]).score > 0}

\* C7: recommend returns only scores above 0; with limit <= 0 every
\* positive-scoring internship, with limit >= 1 the first min(limit, number of
\* positive-scoring internships) of the sorted list; an empty catalog yields
\* the empty list and no exception.
C7_PositiveOnlyAndTruncated ==
    /\ (rbCall # NoCall /\ internships = <<>>)
           => rbResult = [exc |-> NoRaise, recs |-> <<>>]
    /\ rbResult.exc = NoRaise =>
           LET recs == rbResult.recs
               positive == PositiveIndexes(internships, rbCall.profile)
               returned == {IndexIn(internships, recs[i].internship) : i \in 1..Len(recs)}
           IN  /\ \A i \in 1..Len(recs) : recs[i].score > 0
               /\ returned \subseteq positive
               /\ Cardinality(returned) = Len(recs)
               /\ rbCall.limit <= 0 => returned = positive
               /\ rbCall.limit >= 1 =>
                      /\ Len(recs) = Min(rbCall.limit, Cardinality(positive))
                      /\ \A k \in positive \ returned : \A i \in 1..Len(recs) :
                             LET s == Score(rbCall.profile, internships[k]).score
                             IN  \/ recs[i].score > s
                                 \/ /\ recs[i].score = s
                                    /\ IndexIn(internships, recs[i].internship) < k

\* limit 0 returns two or more recommendations and leaves a zero score out
C7_Witness ==
    /\ rbResult.exc = NoRaise
    /\ rbCall.limit = 0
    /\ Len(rbResult.recs) >= 2
    /\ Len(rbResult.recs) < Len(internships)

\* every class of the model has a record in the dataset
AllClassesBacked == \A i \in 1..Len(classes) : HasRecord(dataset, classes[i])

\* C8: a top_n of 0 or below is not used as the truncation bound: the call
\* does not raise and answers as the default does (top_n = 3, or all classes).
C8_NonPositiveTopNFallsBack ==
    (hyCall # NoHybridCall /\ hyCall.top_n <= 0 /\ AllClassesBacked) =>
        \/ hyResult = HybridRecommend(dataset, classes, hyCall.profile, DefaultTopN,
                                      hyCall.proba)
        \/ hyResult = HybridRecommend(dataset, classes, hyCall.profile, Len(classes),
                                      hyCall.proba)

\* the delivery-mode bonus 0.05 in units of 1 / One
BonusScore == DeliveryBonus * FactorOne

PositiveFactors(profile, internship) ==
    (IF MatchFraction(profile.skills, internship.skills) > 0 THEN {"skills"} ELSE {})
        \cup (IF MatchFraction(profile.interests, internship.interests) > 0
              THEN {"interests"} ELSE {})
        \cup (IF EducationScore(profile, internship) > 0 THEN {"education"} ELSE {})
        \cup (IF LocationScore(profile.location, internship.location).val > 0
              THEN {"location"} ELSE {})
        \cup (IF HasDeliveryBonus(internship) THEN {"delivery"} ELSE {})

FactorOrder == <<"skills", "interests", "education", "location", "delivery">>

\* the factor a reason is about: both location reasons are about the location
FactorOfReason(reason) == IF reason = "nearby" THEN "location" ELSE reason

\* the reasons name the positive factors, each once, in the fixed order
ReasonsMatchFactors(reasons, profile, internship) ==
    LET positive == PositiveFactors(profile, internship)
        named == {FactorOfReason(reasons[i]) : i \in 1..Len(reasons)}
    IN  /\ named = positive
        /\ Len(reasons) = Cardinality(positive)
        /\ \A i, j \in 1..Len(reasons) :
               i < j => \E m, n \in 1..Len(FactorOrder) :
                            /\ m < n
                            /\ FactorOrder[m] = FactorOfReason(reasons[i])
                            /\ FactorOrder[n] = FactorOfReason(reasons[j])

====
